---- MODULE Spec2Model ----
(***************************************************************************)
(* endian.hpp: byte-order buffers (detail::endian_buffer) and the          *)
(* fixed-byte-order value wrapper (endian_base, le_t, be_t).               *)
(*                                                                         *)
(* A value of type T is a base-256 numeral: a sequence of sizeof(T) digits *)
(* (each 0..255), least significant digit first.  Memory is a sequence of  *)
(* bytes, lowest address first.  HostRep/FromRep convert between the two   *)
(* according to the byte order of the target hardware.                     *)
(***************************************************************************)
EXTENDS Integers, Sequences, FiniteSets, TLC

VARIABLES
    hw,        \* byte order of the target hardware: "little" or "big"
    native,    \* endian::native as resolved by the preprocessor
    bigMacro,  \* whether __BIG_ENDIAN__ is defined when line 242 is reached
    opt,       \* whether the bswap specializations are compiled (line 184)
    T,         \* the type parameter: [name, kind, size]
    Align,     \* the alignment parameter
    order,     \* "le" for le_t<T,Align>, "be" for be_t<T,Align>
    phase,     \* "source", "rejected", "compiled", "live"
    size_of,   \* sizeof of the instantiated endian value (0 before)
    data,      \* endian_base::data, the backing bytes
    plain,     \* a plain host variable of type T taken through the same operations
    result,    \* what the last operation returned (a value of T)
    op,        \* the last operation
    path,      \* the reversal algorithms the last operation ran
    nops,      \* number of mutating operations so far
    src,       \* the value last handed to a buffer primitive or free function
    dst,       \* raw memory written by the buffer primitives / free functions
    loaded     \* the value last read back by a buffer primitive / free function

vars == <<hw, native, bigMacro, opt, T, Align, order, phase, size_of, data,
          plain, result, op, path, nops, src, dst, loaded>>

----------------------------------------------------------------------------
(* Bounds *)

\* longest sequence of mutating operations on one endian value
MaxOps == 2

----------------------------------------------------------------------------
(* unsigned char: 8 bits, 256 values *)

Base == 256

ByteBits == 8

Bytes == 0 .. (Base - 1)

Zero(n) == [i \in 1..n |-> 0]

AllOnes(n) == [i \in 1..n |-> Base - 1]

One(n) == [i \in 1..n |-> IF i = 1 THEN 1 ELSE 0]

\* 0x01 for one byte, 0x0102, 0x01020304, 0x0102030405060708, ...
Ramp(n) == [i \in 1..n |-> n + 1 - i]

\* the value with only bit k set (bit 0 is the least significant)
SingleBit(n, k) == [i \in 1..n |-> IF i = (k \div ByteBits) + 1 THEN 2 ^ (k % ByteBits) ELSE 0]

----------------------------------------------------------------------------
(* Host arithmetic of an unsigned integer type of n bytes (wraps modulo    *)
(* 2^(8n)), on digit sequences.                                            *)

\* The element of a singleton set.  An operator's argument is evaluated anew
\* at every use; Only({e(x) : x \in {v}}) evaluates v once and names it x.
Only(S) == CHOOSE x \in S : TRUE

\* digits i..Len(a) of a + b + c, c being the carry into digit i
RECURSIVE AddFrom(_, _, _, _)
AddFrom(a, b, c, i) ==
    IF i > Len(a) THEN <<>>
    ELSE Only({<<s % Base>> \o AddFrom(a, b, s \div Base, i + 1) : s \in {a[i] + b[i] + c}})

AddC(a, b, c) == Only({AddFrom(x, y, c, 1) : x \in {a}, y \in {b}})

Add(a, b) == AddC(a, b, 0)

Not(a) == Only({[i \in 1..Len(x) |-> Base - 1 - x[i]] : x \in {a}})

Sub(a, b) == AddC(a, Not(b), 1)

\* digits i..Len(a) of a times the digit d plus carry c
RECURSIVE MulFrom(_, _, _, _)
MulFrom(a, d, c, i) ==
    IF i > Len(a) THEN <<>>
    ELSE Only({<<p % Base>> \o MulFrom(a, d, p \div Base, i + 1) : p \in {a[i] * d + c}})

\* a times 256, truncated
ShiftDigit(a) == Only({[i \in 1..Len(x) |-> IF i = 1 THEN 0 ELSE x[i - 1]] : x \in {a}})

\* a * (digits j..Len(b) of b), truncated to Len(a) digits
RECURSIVE MulAcc(_, _, _)
MulAcc(a, b, j) ==
    IF j > Len(b) THEN Zero(Len(a))
    ELSE Add(MulFrom(a, b[j], 0, 1), ShiftDigit(MulAcc(a, b, j + 1)))

Mul(a, b) == Only({MulAcc(x, y, 1) : x \in {a}, y \in {b}})

RECURSIVE BitwiseByte(_, _, _, _)
BitwiseByte(f, x, y, n) ==
    IF n = 0 THEN 0
    ELSE LET bx == x % 2
             by == y % 2
             r  == CASE f = "and" -> IF bx = 1 /\ by = 1 THEN 1 ELSE 0
                     [] f = "or"  -> IF bx = 1 \/ by = 1 THEN 1 ELSE 0
                     [] f = "xor" -> IF bx # by THEN 1 ELSE 0
         IN  r + 2 * BitwiseByte(f, x \div 2, y \div 2, n - 1)

Bitwise(f, a, b) ==
    Only({[i \in 1..Len(x) |-> BitwiseByte(f, x[i], y[i], ByteBits)] : x \in {a}, y \in {b}})

\* a << k: digit i takes the low bits of digit i-q and the high bits of digit i-q-1
Shl(a, k) ==
    Only({[i \in 1..Len(x) |->
             LET q == k \div ByteBits
                 r == k % ByteBits
             IN  (IF i - q >= 1 THEN (x[i - q] * (2 ^ r)) % Base ELSE 0)
                 + (IF i - q - 1 >= 1 THEN x[i - q - 1] \div (2 ^ (ByteBits - r)) ELSE 0)]
          : x \in {a}})

\* a >> k
Shr(a, k) ==
    Only({[i \in 1..Len(x) |->
             LET q == k \div ByteBits
                 r == k % ByteBits
             IN  (IF i + q <= Len(x) THEN x[i + q] \div (2 ^ r) ELSE 0)
                 + (IF i + q + 1 <= Len(x) THEN (x[i + q + 1] * (2 ^ (ByteBits - r))) % Base ELSE 0)]
          : x \in {a}})

\* digits 1..i of a are less than digits 1..i of b, comparing from digit i down
RECURSIVE LessAt(_, _, _)
LessAt(a, b, i) ==
    IF i = 0 THEN FALSE
    ELSE IF a[i] # b[i] THEN a[i] < b[i]
    ELSE LessAt(a, b, i - 1)

Less(a, b) == Only({LessAt(x, y, Len(x)) : x \in {a}, y \in {b}})

Bit(a, i) == (a[(i \div ByteBits) + 1] \div (2 ^ (i % ByteBits))) % 2

Ext(a) == a \o <<0>>

\* one step of binary long division: r2 = 2r + next bit of the dividend
DivStep(b, q, r2) ==
    IF Less(r2, b) THEN <<AddC(q, q, 0), r2>> ELSE <<AddC(q, q, 1), Sub(r2, b)>>

\* n steps, for bit i down to bit i-n+1 of the dividend; qr = <<quotient, remainder>>,
\* remainder and b carry one extra digit
RECURSIVE DivBits(_, _, _, _, _)
DivBits(a, b, i, n, qr) ==
    IF n = 0 THEN qr
    ELSE Only({DivBits(a, b, i - 1, n - 1, nx) :
                 nx \in {DivStep(b, qr[1], AddC(qr[2], qr[2], Bit(a, i)))}})

\* digit d down to digit 1 of the dividend
RECURSIVE DivDigits(_, _, _, _)
DivDigits(a, b, d, qr) ==
    IF d = 0 THEN qr
    ELSE Only({DivDigits(a, b, d - 1, nx) :
                 nx \in {DivBits(a, b, ByteBits * d - 1, ByteBits, qr)}})

LongDivMod(a, b) ==
    Only({DivDigits(x, y, Len(x), <<Zero(Len(x)), Zero(Len(x) + 1)>>) :
            x \in {a}, y \in {Ext(b)}})

\* division by a divisor d of at most two digits, digit i down to digit 1 of the
\* dividend, r the running remainder: <<quotient digits 1..i, remainder>>
RECURSIVE ShortDiv(_, _, _, _)
ShortDiv(a, d, i, r) ==
    IF i = 0 THEN <<<<>>, r>>
    ELSE Only({Only({<<rest[1] \o <<cur \div d>>, rest[2]>> :
                       rest \in {ShortDiv(a, d, i - 1, cur % d)}}) :
                 cur \in {r * Base + a[i]}})

ShortDivMod(a, b) ==
    Only({Only({<<qr[1], [k \in 1..(Len(x) + 1) |->
                      IF k <= 3 THEN (qr[2] \div (Base ^ (k - 1))) % Base ELSE 0]>> :
                  qr \in {ShortDiv(x, y[1] + (IF Len(y) > 1 THEN Base * y[2] ELSE 0), Len(x), 0)}}) :
            x \in {a}, y \in {b}})

\* <<quotient, remainder>> of a / b, b nonzero; the remainder carries one extra digit
DivMod(a, b) ==
    IF \A k \in 3..Len(b) : b[k] = 0 THEN ShortDivMod(a, b) ELSE LongDivMod(a, b)

Div(a, b) == DivMod(a, b)[1]

Mod(a, b) == SubSeq(DivMod(a, b)[2], 1, Len(a))

----------------------------------------------------------------------------
(* enum class endian: detection of the native byte order (lines 47-76)     *)

BigIndicators ==
    {"__BYTE_ORDER == __BIG_ENDIAN", "__BIG_ENDIAN__", "__ARMEB__", "__THUMBEB__",
     "__AARCH64EB__", "_MIBSEB", "__MIBSEB", "__MIBSEB__"}

LittleIndicators ==
    {"__BYTE_ORDER == __LITTLE_ENDIAN", "__LITTLE_ENDIAN__", "__ARMEL__", "__THUMBEL__",
     "__AARCH64EL__", "_MIPSEL", "__MIPSEL", "__MIPSEL__",
     "_M_IX86", "_M_X64", "_M_IA64", "_M_ARM"}

\* the macro sets a toolchain predefines for a target of byte order h
Toolchains(h) ==
    IF h = "big"
    THEN {{"__BYTE_ORDER == __BIG_ENDIAN"}, {"__BIG_ENDIAN__"}, {"__ARMEB__", "__BIG_ENDIAN__"},
          {"__AARCH64EB__"}, {"_MIPSEB", "__MIPSEB", "__MIPSEB__"}}
    ELSE {{"__BYTE_ORDER == __LITTLE_ENDIAN"}, {"__LITTLE_ENDIAN__"}, {"__ARMEL__"},
          {"_MIPSEL", "__MIPSEL", "__MIPSEL__"}, {"_M_X64"}, {}}

\* endian::native; "unknown" is the #error branch
DetectNative(m) ==
    IF m \cap BigIndicators # {} THEN "big"
    ELSE IF m \cap LittleIndicators # {} THEN "little"
    ELSE "unknown"

\* defined(__BIG_ENDIAN__) after the enum (predefined, or defined by line 60)
BigEndianDefined(m) == ("__BIG_ENDIAN__" \in m) \/ (m \cap BigIndicators # {})

----------------------------------------------------------------------------
(* Type parameters *)

Types ==
    {[name |-> "uint8_t",     kind |-> "integral", size |-> 1],
     [name |-> "uint16_t",    kind |-> "integral", size |-> 2],
     [name |-> "uint32_t",    kind |-> "integral", size |-> 4],
     [name |-> "uint64_t",    kind |-> "integral", size |-> 8],
     [name |-> "float",       kind |-> "floating", size |-> 4],
     [name |-> "long double", kind |-> "floating", size |-> 16],
     [name |-> "enum",        kind |-> "enum",     size |-> 4],
     [name |-> "void*",       kind |-> "pointer",  size |-> 8],
     [name |-> "struct",      kind |-> "class",    size |-> 4]}

Aligns == {1, 2, 4, 8}

\* alignments of a declared endian value: packed, and natural (the default alignof(T))
ValueAligns(t) == {1, t.size}

is_arithmetic(t) == t.kind \in {"integral", "floating"}

is_enum(t) == t.kind = "enum"

\* has_endianness with is_integral in place of is_arithmetic
has_endianness_integral(t) == t.kind = "integral" \/ is_enum(t)

has_endianness(t) == is_arithmetic(t) \/ is_enum(t)

----------------------------------------------------------------------------
(* detail::endian_buffer<T, Size, Align> *)

\* object representation of the host value v (reinterpret_cast<const uchar*>(&src))
HostRep(v) ==
    Only({[i \in 1..Len(x) |-> IF hw = "little" THEN x[i] ELSE x[Len(x) + 1 - i]] : x \in {v}})

\* the host value whose object representation is m
FromRep(m) ==
    Only({[i \in 1..Len(x) |-> IF hw = "little" THEN x[i] ELSE x[Len(x) + 1 - i]] : x \in {m}})

memcpy(from, Size) == Only({[i \in 1..Size |-> x[i]] : x \in {from}})

\* revert that copies forward: dst[i] = src[i]
revert_forward(Size, from) == Only({[i \in 1..Size |-> x[i]] : x \in {from}})

\* dst[i] = src[Size - 1 - i], for i = 0 .. Size-1
revert(Size, from) == Only({[i \in 1..Size |-> x[Size + 1 - i]] : x \in {from}})

\* can_opt that delegates only over-aligned buffers
can_opt_overaligned(Size, Al) == (Size = 2 \/ Size = 4 \/ Size = 8) /\ Al > Size

can_opt(Size, Al) == (Size = 2 \/ Size = 4 \/ Size = 8) /\ Al # Size

\* swap that exchanges the bytes of each 16-bit half-word only
swap_halfwords(Size, b) ==
    Only({[i \in 1..Size |-> IF i % 2 = 1 THEN x[i + 1] ELSE x[i - 1]] : x \in {b}})

\* __builtin_bswap16/32/64 on the unsigned integer x
swap(Size, b) ==
    Only({CASE Size = 2 -> <<x[2], x[1]>>
            [] Size = 4 -> <<x[4], x[3], x[2], x[1]>>
            [] Size = 8 -> <<x[8], x[7], x[6], x[5], x[4], x[3], x[2], x[1]>>
          : x \in {b}})

\* endian_buffer<T,2,2>, <T,4,4>, <T,8,8> exist only under _MSC_VER or __GNUG__
IsSpecialized(Size, Al) == opt /\ Size \in {2, 4, 8} /\ Al = Size

\* endian_buffer_opt::put_re: dst = swap(reinterpret_cast<const B&>(src))
opt_put_re(Size, v) == HostRep(swap(Size, v))

\* endian_buffer_opt::get_re: reinterpret_cast<const T&>(swap(src))
opt_get_re(Size, m) == swap(Size, FromRep(m))

RECURSIVE put_re(_, _, _)
put_re(Size, Al, v) ==
    IF IsSpecialized(Size, Al)
    THEN [out |-> opt_put_re(Size, v), via |-> "swap"]
    ELSE IF can_opt(Size, Al)
    THEN LET buf_opt == put_re(Size, Size, v)
         IN  [out |-> memcpy(buf_opt.out, Size), via |-> buf_opt.via]
    ELSE [out |-> revert(Size, HostRep(v)), via |-> "revert"]

RECURSIVE get_re(_, _, _)
get_re(Size, Al, m) ==
    IF IsSpecialized(Size, Al)
    THEN [out |-> opt_get_re(Size, m), via |-> "swap"]
    ELSE IF can_opt(Size, Al)
    THEN get_re(Size, Size, memcpy(m, Size))
    ELSE [out |-> FromRep(revert(Size, m)), via |-> "revert"]

put_ne(Size, Al, v) == [out |-> memcpy(HostRep(v), Size), via |-> "copy"]

get_ne(Size, Al, m) == [out |-> FromRep(memcpy(m, Size)), via |-> "copy"]

\* sizeof that pads even when the size is a multiple of the alignment
SizeOf_padded(Size, Al) == ((Size \div Al) + 1) * Al

\* sizeof(endian_base<T, Align, Native>): sizeof(data_t)
SizeOf(Size, Al) ==
    IF IsSpecialized(Size, Al) THEN Size
    ELSE ((Size + Al - 1) \div Al) * Al

----------------------------------------------------------------------------
(* le_store / le_load / be_store / be_load: endian_buffer<T>, Align = 1    *)

\* LE_STORE that ignores __BIG_ENDIAN__
LE_STORE_native(Size, v) == put_ne(Size, 1, v)

LE_STORE(Size, v) == IF bigMacro THEN put_re(Size, 1, v) ELSE put_ne(Size, 1, v)

LE_LOAD(Size, m) == IF bigMacro THEN get_re(Size, 1, m) ELSE get_ne(Size, 1, m)

BE_STORE(Size, v) == IF bigMacro THEN put_ne(Size, 1, v) ELSE put_re(Size, 1, v)

BE_LOAD(Size, m) == IF bigMacro THEN get_ne(Size, 1, m) ELSE get_re(Size, 1, m)

----------------------------------------------------------------------------
(* endian_base<T, Align, Native> *)

\* le_t = endian_base<T, A, endian::native == endian::little>, be_t likewise
NativeOf(ord) == IF ord = "le" THEN native = "little" ELSE native = "big"

\* the Native parameter of the declared endian value
Native == NativeOf(order)

\* what the constructor and operator=(const T&) of le_t<T,Al> / be_t<T,Al> write
encode(ord, Al, v) == IF NativeOf(ord) THEN put_ne(T.size, Al, v) ELSE put_re(T.size, Al, v)

\* store with the Native test inverted
store_inverted(v) == encode(IF order = "le" THEN "be" ELSE "le", Align, v)

\* the constructor and operator=(const T&) of the declared endian value
store(v) == encode(order, Align, v)

\* load that never reverses
load_native(m) == get_ne(T.size, Align, m)

\* decoding of the bytes m, as get() and operator T() do
load(m) == IF Native THEN get_ne(T.size, Align, m) ELSE get_re(T.size, Align, m)

\* get() and operator T()
get == load(data)

\* val op= rhs on a host variable of the unsigned type T
HostOp(o, a, b) ==
    CASE o = "+="  -> Add(a, b)
      [] o = "-="  -> Sub(a, b)
      [] o = "*="  -> Mul(a, b)
      [] o = "/="  -> Div(a, b)
      [] o = "%="  -> Mod(a, b)
      [] o = "&="  -> Bitwise("and", a, b)
      [] o = "|="  -> Bitwise("or", a, b)
      [] o = "^="  -> Bitwise("xor", a, b)
      [] o = "<<=" -> Shl(a, b)
      [] o = ">>=" -> Shr(a, b)
      [] o = "++"  -> Add(a, One(Len(a)))
      [] o = "--"  -> Sub(a, One(Len(a)))

----------------------------------------------------------------------------
(* Inputs *)

\* 0xABCD
ABCD == <<205, 171>>

SampleVals(n) == {AllOnes(n), Ramp(n)} \cup (IF n = 2 THEN {ABCD} ELSE {})

\* 0x03 for one byte, 0x0103 extended with zeros otherwise
Small(n) == [i \in 1..n |-> IF i = 1 THEN 3 ELSE IF i = 2 THEN 1 ELSE 0]

Operands(n) == {One(n), Small(n)}

\* a shift that crosses a byte boundary where there is one
ShiftCounts(n) == {IF n = 1 THEN 3 ELSE ByteBits + 1}

\* zero, all bits set, the scenario values, and for the sizes that have a bswap
\* every value with a single bit set (the lowest and highest bit otherwise)
WideVals(n) ==
    {Zero(n), AllOnes(n), Ramp(n)} \cup (IF n = 2 THEN {ABCD} ELSE {})
        \cup {SingleBit(n, k) : k \in IF n \in {2, 4, 8} THEN 0 .. (ByteBits * n - 1)
                                      ELSE {0, ByteBits * n - 1}}

----------------------------------------------------------------------------
(* The build: target, toolchain, template arguments *)

Target ==
    \E h \in {"little", "big"}, o \in BOOLEAN :
      \E m \in Toolchains(h) :
        /\ hw = h
        /\ native = DetectNative(m)
        /\ bigMacro = BigEndianDefined(m)
        /\ opt = o
        /\ phase = IF DetectNative(m) = "unknown" THEN "error" ELSE "source"

env == <<hw, native, bigMacro, opt, T, Align, order>>

valvars == <<data, plain, result, nops>>

bufvars == <<src, dst, loaded>>

\* static_assert(has_endianness<T>::value) and the layout of the data member
Instantiate ==
    /\ phase = "source"
    /\ IF has_endianness(T)
       THEN phase' = "compiled" /\ size_of' = SizeOf(T.size, Align)
       ELSE phase' = "rejected" /\ size_of' = 0
    /\ op' = "static_assert"
    /\ UNCHANGED <<env, valvars, path, bufvars>>

----------------------------------------------------------------------------
(* The endian value: one object of type le_t<T,Align> or be_t<T,Align>     *)

Init ==
    /\ Target
    /\ \E t \in Types, ord \in {"le", "be"} :
         \E a \in ValueAligns(t) :
           T = t /\ Align = a /\ order = ord
    /\ size_of = 0
    /\ data = <<>>
    /\ plain = <<>>
    /\ result = <<>>
    /\ op = "none"
    /\ path = {}
    /\ nops = 0
    /\ src = <<>>
    /\ dst = <<>>
    /\ loaded = <<>>

\* endian_base(const T& value)
Ctor ==
    /\ phase = "compiled"
    /\ \E v \in SampleVals(T.size) :
         \E st \in {store(v)} :
           /\ data' = st.out
           /\ path' = {st.via}
           /\ plain' = v
    /\ phase' = "live"
    /\ op' = "construct"
    /\ result' = <<>>
    /\ UNCHANGED <<env, size_of, nops, bufvars>>

\* operator=(const T& value)
Assign ==
    /\ phase = "live"
    /\ nops < MaxOps
    /\ \E v \in SampleVals(T.size) :
         \E st \in {store(v)} :
           /\ data' = st.out
           /\ path' = {st.via}
           /\ plain' = v
           /\ result' = load(st.out).out
    /\ op' = "="
    /\ nops' = nops + 1
    /\ UNCHANGED <<env, phase, size_of, bufvars>>

\* T get() const
Get ==
    /\ phase = "live"
    /\ \E g \in {get} :
         /\ result' = g.out
         /\ path' = {g.via}
    /\ op' = "get"
    /\ UNCHANGED <<env, phase, size_of, data, plain, nops, bufvars>>

\* operator T() const
Convert ==
    /\ phase = "live"
    /\ \E g \in {get} :
         /\ result' = g.out
         /\ path' = {g.via}
    /\ op' = "operator T"
    /\ UNCHANGED <<env, phase, size_of, data, plain, nops, bufvars>>

\* compound assignment that operates on the raw bytes, without decoding
Compound_raw(o, rhs) ==
    /\ phase = "live"
    /\ T.kind = "integral"
    /\ nops < MaxOps
    /\ \E g \in {get_ne(T.size, Align, data)} :
         \E st \in {put_ne(T.size, Align, HostOp(o, g.out, rhs))} :
           /\ data' = st.out
           /\ path' = {g.via, st.via}
           /\ result' = load(st.out).out
    /\ plain' = HostOp(o, plain, rhs)
    /\ op' = o
    /\ nops' = nops + 1
    /\ UNCHANGED <<hw, native, bigMacro, opt, T, Align, order, phase, size_of, src, dst, loaded>>

\* auto val = get(); val op= rhs; return (*this = val);
Compound(o, rhs) ==
    /\ phase = "live"
    /\ T.kind = "integral"
    /\ nops < MaxOps
    /\ \E g \in {get} :
         \E st \in {store(HostOp(o, g.out, rhs))} :
           /\ data' = st.out
           /\ path' = {g.via, st.via}
           /\ result' = load(st.out).out
    /\ plain' = HostOp(o, plain, rhs)
    /\ op' = o
    /\ nops' = nops + 1
    /\ UNCHANGED <<env, phase, size_of, bufvars>>

AddAssign == \E b \in Operands(T.size) : Compound("+=", b)

SubAssign == \E b \in Operands(T.size) : Compound("-=", b)

MulAssign == \E b \in Operands(T.size) : Compound("*=", b)

DivAssign == \E b \in Operands(T.size) : Compound("/=", b)

ModAssign == \E b \in Operands(T.size) : Compound("%=", b)

AndAssign == \E b \in Operands(T.size) : Compound("&=", b)

OrAssign == \E b \in Operands(T.size) : Compound("|=", b)

XorAssign == \E b \in Operands(T.size) : Compound("^=", b)

ShlAssign == \E k \in ShiftCounts(T.size) : Compound("<<=", k)

ShrAssign == \E k \in ShiftCounts(T.size) : Compound(">>=", k)

\* postfix that returns the updated value
Postfix_updated(o, name) ==
    /\ phase = "live"
    /\ T.kind = "integral"
    /\ nops < MaxOps
    /\ \E g \in {get} :
         \E st \in {store(HostOp(o, g.out, <<>>))} :
           /\ data' = st.out
           /\ path' = {g.via, st.via}
           /\ result' = load(st.out).out
    /\ plain' = HostOp(o, plain, <<>>)
    /\ op' = name
    /\ nops' = nops + 1
    /\ UNCHANGED <<hw, native, bigMacro, opt, T, Align, order, phase, size_of, src, dst, loaded>>

\* auto val = get(); auto result = val++ (val--); *this = val; return result;
Postfix(o, name) ==
    /\ phase = "live"
    /\ T.kind = "integral"
    /\ nops < MaxOps
    /\ \E g \in {get} :
         \E st \in {store(HostOp(o, g.out, <<>>))} :
           /\ data' = st.out
           /\ path' = {g.via, st.via}
           /\ result' = g.out
    /\ plain' = HostOp(o, plain, <<>>)
    /\ op' = name
    /\ nops' = nops + 1
    /\ UNCHANGED <<env, phase, size_of, bufvars>>

PostInc == Postfix("++", "x++")

PostDec == Postfix("--", "x--")

\* auto val = get(); ++val (--val); return (*this = val);
Prefix(o, name) ==
    /\ phase = "live"
    /\ T.kind = "integral"
    /\ nops < MaxOps
    /\ \E g \in {get} :
         \E st \in {store(HostOp(o, g.out, <<>>))} :
           /\ data' = st.out
           /\ path' = {g.via, st.via}
           /\ result' = load(st.out).out
    /\ plain' = HostOp(o, plain, <<>>)
    /\ op' = name
    /\ nops' = nops + 1
    /\ UNCHANGED <<env, phase, size_of, bufvars>>

PreInc == Prefix("++", "++x")

PreDec == Prefix("--", "--x")

Next ==
    \/ Instantiate
    \/ Ctor
    \/ Assign
    \/ Get
    \/ Convert
    \/ AddAssign
    \/ SubAssign
    \/ MulAssign
    \/ DivAssign
    \/ ModAssign
    \/ AndAssign
    \/ OrAssign
    \/ XorAssign
    \/ ShlAssign
    \/ ShrAssign
    \/ PostInc
    \/ PostDec
    \/ PreInc
    \/ PreDec

Spec == Init /\ [][Next]_vars

----------------------------------------------------------------------------------------------------------------------------------------
(* The buffer primitives of endian_buffer<T, sizeof(T), Align> and the free *)
(* functions, applied to a value src and an S-byte region of memory dst    *)

InitBuf ==
    /\ Target
    /\ \E t \in Types, a \in Aligns :
         /\ T = t
         /\ Align = a
         /\ src \in WideVals(t.size)
    /\ order = "none"
    /\ size_of = 0
    /\ data = <<>>
    /\ plain = <<>>
    /\ result = <<>>
    /\ op = "none"
    /\ path = {}
    /\ nops = 0
    /\ dst = <<>>
    /\ loaded = <<>>

\* a store: the value src goes to memory
StoreBy(name, st) ==
    /\ phase = "compiled"
    /\ dst' = st.out
    /\ path' = {st.via}
    /\ loaded' = <<>>
    /\ op' = name
    /\ UNCHANGED <<env, phase, size_of, valvars, src>>

\* a load: memory is read back as a value
LoadBy(name, ld) ==
    /\ phase = "compiled"
    /\ dst # <<>>
    /\ loaded' = ld.out
    /\ path' = {ld.via}
    /\ op' = name
    /\ UNCHANGED <<env, phase, size_of, valvars, src, dst>>

PutRe == StoreBy("put_re", put_re(T.size, Align, src))

PutNe == StoreBy("put_ne", put_ne(T.size, Align, src))

GetRe == LoadBy("get_re", get_re(T.size, Align, dst))

GetNe == LoadBy("get_ne", get_ne(T.size, Align, dst))

le_store == StoreBy("le_store", LE_STORE(T.size, src))

be_store == StoreBy("be_store", BE_STORE(T.size, src))

le_load == LoadBy("le_load", LE_LOAD(T.size, dst))

be_load == LoadBy("be_load", BE_LOAD(T.size, dst))

NextBuf ==
    \/ Instantiate
    \/ PutRe
    \/ PutNe
    \/ GetRe
    \/ GetNe
    \/ le_store
    \/ be_store
    \/ le_load
    \/ be_load

SpecBuf == InitBuf /\ [][NextBuf]_vars

----------------------------------------------------------------------------
(* Claims *)

S == T.size

CompoundOps == {"+=", "-=", "*=", "/=", "%=", "&=", "|=", "^=", "<<=", ">>="}

\* C1: after construct(v) and after every assign, compound assignment, increment
\* and decrement, on a little-endian and on a big-endian host, the S backing bytes
\* hold the current value in the declared order: for be_t byte i (from 0) is the
\* (S-1-i)-th least significant byte of the value, for le_t it is the i-th.
C1_DeclaredByteOrder ==
    phase = "live" =>
        /\ Len(data) = S
        /\ \A i \in 1..S : data[i] = IF order = "be" THEN plain[S + 1 - i] ELSE plain[i]

\* be_t<uint32_t>(0x01020304) on a little-endian host after += 1 holds [01,02,03,05]
C1_Witness ==
    /\ phase = "live" /\ hw = "little" /\ order = "be" /\ T.name = "uint32_t"
    /\ op = "+=" /\ nops = 1
    /\ data = <<1, 2, 3, 5>>

\* C2: round trip: an endian value constructed or assigned from v and then decoded
\* with get() or the implicit conversion returns exactly v, for both byte orders and
\* both the generic and the fast path.
C2_RoundTrip ==
    [][(op \in {"construct", "="} /\ op' \in {"get", "operator T"}) => result' = plain]_vars

\* get() on a reversed 8-byte value that went through the bswap path
C2_Witness ==
    /\ op = "get" /\ nops = 0 /\ ~Native /\ path = {"swap"}
    /\ T.name = "uint64_t" /\ result = Ramp(8)

\* C5: arithmetic parity: after every compound assignment, at every step of a
\* sequence, the endian value decodes to what a plain host variable of type T taken
\* through the same operations holds, wraparound included.
C5_ArithmeticParity ==
    (phase = "live" /\ op \in CompoundOps) => (get.out = plain /\ result = plain)

\* 0xFFFFFFFFFFFFFFFF *= 0x0103 wraps; stored reversed
C5_Witness ==
    /\ op = "*=" /\ ~Native /\ T.name = "uint64_t"
    /\ plain = <<253, 254, 255, 255, 255, 255, 255, 255>>
    /\ get.out = plain

\* C6: increment/decrement parity: postfix x++ / x-- return the value held before
\* and leave x one more / one less (with wraparound); prefix ++x / --x leave x one
\* more / one less and their result decodes to the updated value.
C6_IncDecParity ==
    /\ op = "x++" => (Add(result, One(S)) = plain /\ get.out = plain)
    /\ op = "x--" => (Sub(result, One(S)) = plain /\ get.out = plain)
    /\ op \in {"++x", "--x"} => (result = plain /\ get.out = plain)

\* 0xFFFF++ returns 0xFFFF and leaves 0
C6_Witness ==
    /\ op = "x++" /\ T.name = "uint16_t" /\ ~Native
    /\ result = AllOnes(2) /\ plain = Zero(2) /\ data = Zero(2)

\* C8 as stated: T is accepted only if it is an integer or an enumeration type.
C8_OnlyIntegerOrEnum ==
    phase \in {"compiled", "live"} => T.kind \in {"integral", "enum"}

\* C8, amended: T is accepted exactly if it is an arithmetic type (integer or
\* floating point) or an enumeration type; every other T is rejected by the
\* static assertion at instantiation, before any object exists.
C8_ArithmeticOrEnum ==
    /\ phase \in {"compiled", "live"} => T.kind \in {"integral", "floating", "enum"}
    /\ phase = "rejected" => (T.kind \notin {"integral", "floating", "enum"} /\ data = <<>>)

C8_Witness == phase = "rejected" /\ T.kind = "class" /\ op = "static_assert"

----------------------------------------------------------------------------
(* Claims on the buffer primitives and the free functions *)

\* C3: put_re writes all S bytes, dst[i] being byte S-1-i of the value's host
\* representation; get_re returns the host value whose byte i is src[S-1-i];
\* put_ne and get_ne copy the S bytes without reordering.
C3_ReversedAndNative ==
    /\ op = "put_re" =>
          (Len(dst) = S /\ \A i \in 1..S : dst[i] = HostRep(src)[S + 1 - i])
    /\ op = "get_re" =>
          (Len(loaded) = S /\ \A i \in 1..S : HostRep(loaded)[i] = dst[S + 1 - i])
    /\ op = "put_ne" => dst = HostRep(src)
    /\ op = "get_ne" => HostRep(loaded) = dst

\* a 16-byte value reversed by the byte loop
C3_Witness ==
    /\ op = "get_re" /\ S = 16 /\ path = {"revert"}
    /\ src = Ramp(16) /\ dst # HostRep(src) /\ loaded = src

\* C4: path equivalence: for S in {2,4,8} the bswap path stores exactly the bytes,
\* and decodes to exactly the value, that the byte-by-byte revert loop gives.
C4_PathEquivalence ==
    /\ (op = "put_re" /\ path = {"swap"}) => dst = revert(S, HostRep(src))
    /\ (op = "get_re" /\ path = {"swap"}) => loaded = FromRep(revert(S, dst))

\* the value with only the top bit of 8 bytes set, through bswap64
C4_Witness ==
    /\ op = "put_re" /\ path = {"swap"} /\ S = 8 /\ Align = 8
    /\ src = SingleBit(8, 63)

\* C7 as stated: the instance occupies exactly S bytes whatever the alignment.
C7_ExactlyS == phase = "compiled" => size_of = S

\* C7, amended: the instance occupies S rounded up to the next multiple of the
\* alignment A: exactly S bytes whenever A divides S (in particular for A = 1),
\* and more than S bytes (padding) when A does not divide S, as for A > S.
C7_RoundedUpToAlign ==
    phase = "compiled" =>
        /\ size_of % Align = 0
        /\ size_of >= S
        /\ size_of - S < Align
        /\ (S % Align = 0 => size_of = S)

\* a 4-byte value over-aligned to 8 occupies 8 bytes
C7_Witness == phase = "compiled" /\ S = 4 /\ Align = 8 /\ size_of = 8

\* C9 as stated: the bswap path is taken only when S is 2, 4 or 8 and the alignment
\* equals S; a buffer whose alignment differs from S takes the byte loop.
C9_SwapOnlyWhenAligned ==
    (op \in {"put_re", "get_re"} /\ path = {"swap"}) => (S \in {2, 4, 8} /\ Align = S)

\* C9, amended: where the bswap specializations are compiled, put_re/get_re take
\* the bswap path exactly when S is 2, 4 or 8, whatever the alignment (directly when
\* the alignment equals S, through an S-aligned temporary and memcpy otherwise);
\* for every other S, and in a build without the specializations, they take the
\* byte loop.
C9_SwapForEverySize248 ==
    op \in {"put_re", "get_re"} =>
        /\ path = {"swap"} <=> (opt /\ S \in {2, 4, 8})
        /\ path = {"revert"} <=> ~(opt /\ S \in {2, 4, 8})

\* be_store-like put_re into a packed 4-byte buffer runs bswap32
C9_Witness ==
    /\ op = "put_re" /\ path = {"swap"} /\ S = 4 /\ Align = 1

\* C10: le_store writes the bytes le_t<T,1>(v) holds, least significant first;
\* be_store those be_t<T,1>(v) holds, most significant first; le_load and be_load
\* invert them; the macro selection agrees with endian::native, so exactly one of
\* the two pairs reverses.
C10_FreeFunctions ==
    /\ bigMacro <=> (native = "big")
    /\ op = "le_store" =>
          /\ dst = encode("le", 1, src).out
          /\ \A i \in 1..S : dst[i] = src[i]
          /\ (path = {"copy"}) <=> (hw = "little")
    /\ op = "be_store" =>
          /\ dst = encode("be", 1, src).out
          /\ \A i \in 1..S : dst[i] = src[S + 1 - i]
          /\ (path = {"copy"}) <=> (hw = "big")
    /\ op = "le_load" => \A i \in 1..S : loaded[i] = dst[i]
    /\ op = "be_load" => \A i \in 1..S : loaded[i] = dst[S + 1 - i]

\* le_store of 0x01020304 on a big-endian host writes [04,03,02,01]
C10_Witness ==
    /\ op = "le_store" /\ hw = "big" /\ src = Ramp(4) /\ dst = <<4, 3, 2, 1>>
    /\ path = {"swap"}

====
